---- MODULE Spec2Model ----
(***************************************************************************)
(* Model of the jlox lexical front end: TokenKind::from_utf8 (the token    *)
(* classifier) and the Scanner iterator (src/src/scanner.rs).              *)
(*                                                                         *)
(* Bytes are the u8 values 0..255.  A buffer is a sequence of bytes;       *)
(* Rust's 0-based slice value[i] is value[i + 1] here.                     *)
(***************************************************************************)
EXTENDS Integers, Sequences, FiniteSets, TLC

\* ---------------------------------------------------------------- bounds
\* Longest buffer drawn exhaustively from Alphabet.
MaxLen == 3
\* Largest number of pulls (calls of Scanner::next) made on one scanner.
MaxPulls == 5

\* ------------------------------------------------------ bytes and buffers
\* The byte and char literals the scanner matches on, by their u8 value.
ASCII ==
    [ tab |-> 9, nl |-> 10, cr |-> 13, space |-> 32, bang |-> 33,
      quote |-> 34, lparen |-> 40, rparen |-> 41, star |-> 42, plus |-> 43,
      comma |-> 44, minus |-> 45, dot |-> 46, slash |-> 47,
      zero |-> 48, nine |-> 57, semicolon |-> 59, less |-> 60,
      equal |-> 61, greater |-> 62, A |-> 65, Z |-> 90, underscore |-> 95,
      a |-> 97, z |-> 122, lbrace |-> 123, rbrace |-> 125 ]

\* Bytes the buffers of length <= MaxLen are built from: one byte of each
\* class the classifier distinguishes (space, newline, '!', '"', '.', '/',
\* '1', '9', '=', '@', 'a', 'z', and 0xC3, a UTF-8 lead byte).
Alphabet == {32, 10, 33, 34, 46, 47, 49, 57, 61, 64, 97, 122, 195}

\* Longer buffers, scanned in addition to the exhaustive short ones.
Examples ==
  { <<49, 50, 51, 46, 52, 53, 46, 54>>,   \* 123.45.6
    <<110, 97, 109, 101, 49>>,            \* name1
    <<119, 104, 105, 108, 101>>,          \* while
    <<87, 104, 105, 108, 101, 49>>,       \* While1
    <<102, 97, 108, 115, 101>>,           \* false
    <<47, 47, 32, 99, 10>>,               \* "// c\n"
    <<34, 97, 10, 98, 34>>,               \* "a\nb" in quotes
    <<34, 195, 10, 34>>,                  \* quote 0xC3 \n quote (not UTF-8)
    <<34, 195, 169, 10, 34>>,             \* quote 0xC3 0xA9 \n quote (UTF-8)
    <<32, 9, 13, 40, 41, 123, 125, 44, 45, 43, 59, 42, 60, 62>>,
                                          \* " \t\r(){},-+;*<>"
    <<57, 57>>,                           \* 99
    <<95, 90, 122>>,                      \* _Zz
    <<60, 61, 62, 61>>,                   \* <=>=
    <<33, 61, 97>>,                       \* !=a
    <<34, 97, 34, 98, 34>>,               \* "a"b" : a string, b, a lone quote
    <<47, 47, 32, 99, 111, 109, 109, 101, 110, 116, 10>>,
                                          \* "// comment\n"
    <<102, 97, 108, 115, 101, 59>>,      \* "false;"
    <<97, 47, 98>>,              \* "a/b"
    <<32, 9, 13, 32, 10, 9, 32, 120>>,       \* " \t\r \n\t x"
    <<60, 97, 62, 61, 32>> }                  \* "<a>= "

RECURSIVE SeqsUpTo(_, _)
SeqsUpTo(S, n) ==
    IF n = 0 THEN {<<>>}
    ELSE LET shorter == SeqsUpTo(S, n - 1)
         IN  shorter \cup {Append(s, b) : s \in shorter, b \in S}

\* The buffers a Scanner is constructed over.
Buffers == SeqsUpTo(Alphabet, MaxLen) \cup Examples

\* value[from..] of Rust for a 0-based from <= len.
SliceFrom(value, from) == SubSeq(value, from + 1, Len(value))

\* iter().take_while(|c| c in S).count()
TakeWhileCount(bytes, S) ==
    CHOOSE n \in 0..Len(bytes) :
        /\ \A i \in 1..n : bytes[i] \in S
        /\ n = Len(bytes) \/ bytes[n + 1] \notin S

RECURSIVE Concat(_)
Concat(ss) == IF ss = <<>> THEN <<>> ELSE Head(ss) \o Concat(Tail(ss))

CountByte(bytes, b) == Cardinality({i \in 1..Len(bytes) : bytes[i] = b})

MinOf(S) == CHOOSE m \in S : \A x \in S : m <= x

\* --------------------------------------------------------- the keyword map
\* The keyword map with an entry for "false".
KEYWORDS_with_false ==
    <<97, 110, 100>> :> "And" @@
    <<99, 108, 97, 115, 115>> :> "Class" @@
    <<101, 108, 115, 101>> :> "Else" @@
    <<102, 97, 108, 115, 101>> :> "False" @@
    <<102, 117, 110, 99>> :> "Func" @@
    <<102, 111, 114>> :> "For" @@
    <<105, 102>> :> "If" @@
    <<110, 105, 108>> :> "Nil" @@
    <<111, 114>> :> "Or" @@
    <<112, 114, 105, 110, 116>> :> "Print" @@
    <<114, 101, 116, 117, 114, 110>> :> "Return" @@
    <<115, 117, 112, 101, 114>> :> "Super" @@
    <<116, 104, 105, 115>> :> "This" @@
    <<116, 114, 117, 101>> :> "True" @@
    <<118, 97, 114>> :> "Var" @@
    <<119, 104, 105, 108, 101>> :> "While"

KEYWORDS ==
    <<97, 110, 100>> :> "And" @@                 \* and
    <<99, 108, 97, 115, 115>> :> "Class" @@      \* class
    <<101, 108, 115, 101>> :> "Else" @@          \* else
    <<102, 117, 110, 99>> :> "Func" @@           \* func
    <<102, 111, 114>> :> "For" @@                \* for
    <<105, 102>> :> "If" @@                      \* if
    <<110, 105, 108>> :> "Nil" @@                \* nil
    <<111, 114>> :> "Or" @@                      \* or
    <<112, 114, 105, 110, 116>> :> "Print" @@    \* print
    <<114, 101, 116, 117, 114, 110>> :> "Return" @@  \* return
    <<115, 117, 112, 101, 114>> :> "Super" @@    \* super
    <<116, 104, 105, 115>> :> "This" @@          \* this
    <<116, 114, 117, 101>> :> "True" @@          \* true
    <<118, 97, 114>> :> "Var" @@                 \* var
    <<119, 104, 105, 108, 101>> :> "While"       \* while

\* ------------------------------------------- results of TokenKind::from_utf8
\* Ok((kind, size)), Err(error_type), or a panic raised by an index that is
\* out of bounds.
OkKind(kind, size) == [tag |-> "Ok", kind |-> kind, size |-> size]
ErrType(error_type) == [tag |-> "Err", error_type |-> error_type]
Panic == [tag |-> "Panic"]

UnexpectedCharacter(c) == [name |-> "UnexpectedCharacter", c |-> c]
UnterminatedString == [name |-> "UnterminatedString"]

\* ----------------------------------------------- arms of TokenKind::from_utf8
\* '\r' | '\t' | ' '
WhitespaceBytes == {ASCII.cr, ASCII.tab, ASCII.space}

\* The whitespace arm without the run: one byte per token.
whitespace_arm_single(value) == OkKind("WhiteSpace", 1)

\* The whitespace arm counting the run from value[0] and adding 1 again.
whitespace_arm_over(value) ==
    OkKind("WhiteSpace", TakeWhileCount(value, WhitespaceBytes) + 1)

whitespace_arm(value) ==
    OkKind("WhiteSpace", TakeWhileCount(SliceFrom(value, 1), WhitespaceBytes) + 1)

\* The operator arms without the lookahead.
lookahead_arm_single(value, single, compound) ==
    IF Len(value) < 2 THEN Panic ELSE OkKind(single, 1)

\* '=' '>' '<' '!': value[1] is indexed without a bounds check.
lookahead_arm(value, single, compound) ==
    IF Len(value) < 2 THEN Panic
    ELSE IF value[2] = ASCII.equal THEN OkKind(compound, 2)
    ELSE OkKind(single, 1)

\* The slash arm without the + 2 for the leading "//".
slash_arm_no_offset(value) ==
    IF Len(value) < 2 THEN Panic
    ELSE IF value[2] = ASCII.slash
         THEN OkKind("Comment",
                     TakeWhileCount(SliceFrom(value, 2), (0..255) \ {ASCII.nl}))
         ELSE OkKind("Slash", 1)

\* '/': value[1] is indexed without a bounds check.
slash_arm(value) ==
    IF Len(value) < 2 THEN Panic
    ELSE IF value[2] = ASCII.slash
         THEN OkKind("Comment",
                     TakeWhileCount(SliceFrom(value, 2), (0..255) \ {ASCII.nl}) + 2)
         ELSE OkKind("Slash", 1)

\* The string arm returning i + 1: the closing quote is left unread.
string_arm_short(value) ==
    LET rest == SliceFrom(value, 1)
        hits == {i \in 0..(Len(rest) - 1) : rest[i + 1] = ASCII.quote}
    IN  IF hits = {} THEN ErrType(UnterminatedString)
        ELSE OkKind("String", MinOf(hits) + 1)

\* '"': i is the 0-based index of the first '"' in value[1..].
string_arm(value) ==
    LET rest == SliceFrom(value, 1)
        hits == {i \in 0..(Len(rest) - 1) : rest[i + 1] = ASCII.quote}
    IN  IF hits = {} THEN ErrType(UnterminatedString)
        ELSE OkKind("String", MinOf(hits) + 2)

is_ascii_digit(byte) == byte >= ASCII.zero /\ byte <= ASCII.nine

\* The loop of the digit arm over value[1..], from its i-th byte on.
RECURSIVE number_loop(_, _, _, _)
number_loop(bytes, i, post_dot, size) ==
    IF i > Len(bytes) THEN size
    ELSE IF bytes[i] = ASCII.dot
         THEN IF post_dot THEN size
              ELSE number_loop(bytes, i + 1, TRUE, size + 1)
    ELSE IF ~is_ascii_digit(bytes[i]) THEN size
    ELSE number_loop(bytes, i + 1, post_dot, size + 1)

\* '0'..'9': size starts at 0 and counts the bytes of value[1..] only.
number_arm(value) ==
    OkKind("Number", number_loop(SliceFrom(value, 1), 1, FALSE, 0))

\* Identifier bytes that also take the ASCII digits.
IdentifierBytes_alnum ==
    (ASCII.a..(ASCII.z - 1)) \cup (ASCII.A..(ASCII.Z - 1)) \cup {ASCII.underscore}
        \cup (ASCII.zero..ASCII.nine)

\* b'a'..b'z' | b'A'..b'Z' | b'_' : the ranges exclude their upper end.
IdentifierBytes ==
    (ASCII.a..(ASCII.z - 1)) \cup (ASCII.A..(ASCII.Z - 1)) \cup {ASCII.underscore}

identifier_arm(value) ==
    LET identifier == SubSeq(value, 1, TakeWhileCount(value, IdentifierBytes))
    IN  IF identifier \in DOMAIN KEYWORDS
        THEN OkKind(KEYWORDS[identifier], Len(identifier))
        ELSE OkKind("Identifier", Len(identifier))

\* The single-character punctuation arms.
Punctuation ==
    ASCII.lparen :> "LeftParen" @@ ASCII.rparen :> "RightParen" @@
    ASCII.lbrace :> "LeftBrace" @@ ASCII.rbrace :> "RightBrace" @@
    ASCII.comma :> "Comma" @@ ASCII.dot :> "Dot" @@
    ASCII.minus :> "Minus" @@ ASCII.plus :> "Plus" @@
    ASCII.semicolon :> "Semicolon" @@ ASCII.star :> "Star"

\* TokenKind::from_utf8.  value[0] panics on an empty slice.
from_utf8(value) ==
    IF Len(value) = 0 THEN Panic
    ELSE LET c == value[1] IN
      CASE c \in WhitespaceBytes -> whitespace_arm(value)
        [] c = ASCII.nl -> OkKind("NewLine", 1)
        [] c \in DOMAIN Punctuation -> OkKind(Punctuation[c], 1)
        [] c = ASCII.equal -> lookahead_arm(value, "Equal", "EqualEqual")
        [] c = ASCII.greater -> lookahead_arm(value, "Greater", "GreaterEqual")
        [] c = ASCII.less -> lookahead_arm(value, "Less", "LessEqual")
        [] c = ASCII.bang -> lookahead_arm(value, "Bang", "BangEqual")
        [] c = ASCII.slash -> slash_arm(value)
        [] c = ASCII.quote -> string_arm(value)
        [] c >= ASCII.zero /\ c < ASCII.nine -> number_arm(value)
        [] \/ c >= ASCII.a /\ c < ASCII.z
           \/ c >= ASCII.A /\ c < ASCII.Z
           \/ c = ASCII.underscore -> identifier_arm(value)
        [] OTHER -> ErrType(UnexpectedCharacter(c))

\* ------------------------------------------------------------ the Scanner
VARIABLES
    content,    \* Scanner.content: the byte buffer
    current,    \* Scanner.current: offset of the next unread byte
    start,      \* Scanner.start
    line,       \* Scanner.line (u32; a buffer needs 2^32 newlines to wrap it)
    out,        \* the items Scanner::next has returned, in order
    panicked,   \* TRUE once a call of Scanner::next has panicked
    expr,       \* the Expr handed to accept::<ASTPrint>()
    printed     \* <<>>, or <<text>> once ASTPrint::visit has returned text

vars == <<content, current, start, line, out, panicked, expr, printed>>

\* Items of the iterator: Some(Ok(Token)), Some(Err(LoxError)), None.
Token(kind, lexeme, literal, line_) ==
    [tag |-> "Token", kind |-> kind, lexeme |-> lexeme, literal |-> literal,
     line |-> line_]
LoxError(line_, type_) == [tag |-> "Error", line |-> line_, type_ |-> type_]
None == [tag |-> "None"]

\* lexeme.chars().filter(|c| *c == '\n').count(), from the i-th byte on: the
\* values the count can take.  The lexeme is a String made by
\* from_utf8_unchecked, so chars() decodes it without validation: a byte
\* >= 0x80 is taken as the lead of a 2-, 3- or 4-byte sequence and the bytes
\* after it as its continuation bytes, whatever they are.  On UTF-8 this is
\* the number of '\n' bytes.  A sequence that runs past the end of the
\* lexeme reads a byte that does not exist, and the char it decodes to is
\* either a '\n' or not.
RECURSIVE chars_newlines(_, _)
chars_newlines(bytes, i) ==
    IF i > Len(bytes) THEN {0}
    ELSE LET x == bytes[i]
             width == IF x < 128 THEN 1 ELSE IF x < 224 THEN 2
                      ELSE IF x < 240 THEN 3 ELSE 4
             y == bytes[i + 1] % 64
             z == bytes[i + 2] % 64
             w == bytes[i + 3] % 64
             ch == CASE width = 1 -> x
                     [] width = 2 -> (x % 32) * 64 + y
                     [] width = 3 -> (x % 32) * 4096 + y * 64 + z
                     [] width = 4 -> (x % 8) * 262144 + y * 4096 + z * 64 + w
         IN  IF i + width - 1 > Len(bytes) THEN {0, 1}
             ELSE { (IF ch = ASCII.nl THEN 1 ELSE 0) + k :
                        k \in chars_newlines(bytes, i + width) }

new_lines(lexeme) == chars_newlines(lexeme, 1)

\* The end test written with > : a pull at the end of the buffer classifies
\* an empty slice.
exhausted_strict(current_, content_) == current_ > Len(content_)

\* if self.current >= self.content.len() { return None; }
exhausted(current_, content_) == current_ >= Len(content_)

\* The lexeme cut one byte short: content_slice[..token_size - 1].
lexeme_of_short(content_slice, token_size) == SubSeq(content_slice, 1, token_size - 1)

\* content_slice[..token_size]
lexeme_of(content_slice, token_size) == SubSeq(content_slice, 1, token_size)

\* self.current += token_size
advance(current_, token_size) == current_ + token_size

\* The amount the match on token_type adds to self.line.
line_delta(token_type, lexeme, n) ==
    CASE token_type = "NewLine" -> 1
      [] token_type = "String" -> n
      [] OTHER -> 0

\* An Err arm that steps over the offending byte.
error_arm_skip(current_, line_, error_type) ==
    [current |-> current_ + 1, line |-> line_, item |-> LoxError(line_, error_type)]

\* The Err arm of Scanner::next: the scanner is left as it is.
error_arm(current_, line_, error_type) ==
    [current |-> current_, line |-> line_, item |-> LoxError(line_, error_type)]

\* ------------------------------------------------ the expression tree
\* Bound on the depth of the expression trees handed to the print visitor.
MaxDepth == 2

\* An f64 literal with one decimal digit: whole + tenths / 10.
F64(whole, tenths) == [whole |-> whole, tenths |-> tenths]

\* The variants of Expr.
LiteralString(s) == [node |-> "LiteralString", s |-> s]
LiteralNumber(n) == [node |-> "LiteralNumber", n |-> n]
LiteralTrue == [node |-> "LiteralTrue"]
LiteralFalse == [node |-> "LiteralFalse"]
LiteralNil == [node |-> "LiteralNil"]
Grouping(expression) == [node |-> "Grouping", expression |-> expression]
Unary(prefix, expression) ==
    [node |-> "Unary", prefix |-> prefix, expression |-> expression]
Binary(left, operator, right) ==
    [node |-> "Binary", left |-> left, operator |-> operator, right |-> right]

\* The expression main builds: (-55.5) * (77.0) as Binary(Unary, Star, Grouping).
MainExpr ==
    Binary(Unary(Token("Minus", <<45>>, <<>>, 1), LiteralNumber(F64(55, 5))),
           Token("Star", <<42>>, <<>>, 1),
           Grouping(LiteralNumber(F64(77, 0))))

\* impl Display for TokenKind: the text written for each kind.
TokenKindDisplay ==
    "LeftParen" :> <<76, 101, 102, 116, 80, 97, 114, 101, 110>> @@
    "RightParen" :> <<82, 105, 103, 104, 116, 80, 97, 114, 101, 110>> @@
    "LeftBrace" :> <<76, 101, 102, 116, 66, 114, 97, 99, 101>> @@
    "RightBrace" :> <<82, 105, 103, 104, 116, 66, 114, 97, 99, 101>> @@
    "Comma" :> <<67, 111, 109, 109, 97, 110>> @@
    "Dot" :> <<68, 111, 116>> @@
    "Minus" :> <<77, 105, 110, 117, 115>> @@
    "Plus" :> <<80, 108, 117, 115>> @@
    "Semicolon" :> <<83, 101, 109, 105, 99, 111, 108, 111, 110>> @@
    "Slash" :> <<83, 108, 97, 115, 104>> @@
    "Star" :> <<83, 116, 97, 114>> @@
    "Bang" :> <<66, 97, 110, 103>> @@
    "BangEqual" :> <<66, 97, 110, 103, 69, 113, 117, 97, 108>> @@
    "Equal" :> <<69, 113, 117, 97, 108>> @@
    "EqualEqual" :> <<69, 113, 117, 97, 108, 69, 113, 117, 97, 108>> @@
    "Greater" :> <<71, 114, 101, 97, 116, 101, 114>> @@
    "GreaterEqual" :> <<71, 114, 101, 97, 116, 101, 114, 69, 113, 117, 97, 108>> @@
    "Less" :> <<76, 101, 115, 115>> @@
    "LessEqual" :> <<76, 101, 115, 115, 69, 113, 117, 97, 108>> @@
    "Identifier" :> <<73, 100, 101, 110, 116, 105, 102, 105, 101, 114>> @@
    "String" :> <<83, 116, 114, 105, 110, 103>> @@
    "Number" :> <<78, 117, 109, 98, 101, 114>> @@
    "And" :> <<65, 110, 100>> @@
    "Class" :> <<67, 108, 97, 115, 115>> @@
    "Else" :> <<69, 108, 115, 101>> @@
    "False" :> <<70, 97, 108, 115, 101>> @@
    "Func" :> <<70, 117, 110, 99>> @@
    "For" :> <<70, 111, 114>> @@
    "If" :> <<73, 102>> @@
    "Nil" :> <<78, 105, 108>> @@
    "Or" :> <<79, 114>> @@
    "Print" :> <<80, 114, 105, 110, 116>> @@
    "Return" :> <<82, 101, 116, 117, 114, 110>> @@
    "Super" :> <<83, 117, 112, 101, 114>> @@
    "This" :> <<84, 104, 105, 115>> @@
    "True" :> <<84, 114, 117, 101>> @@
    "Var" :> <<86, 97, 114>> @@
    "While" :> <<87, 104, 105, 108, 101>> @@
    "Comment" :> <<67, 111, 109, 109, 101, 110, 116>> @@
    "NewLine" :> <<78, 101, 119, 76, 105, 110, 101>> @@
    "WhiteSpace" :> <<87, 104, 105, 116, 101, 83, 112, 97, 99, 101>>

\* impl Display for Token: "{} `{}` {}" of kind, lexeme and literal.
TokenDisplay(token) ==
    TokenKindDisplay[token.kind] \o <<32, 96>> \o token.lexeme \o <<96, 32>>
        \o token.literal

\* The decimal digits of a natural number.
RECURSIVE Decimal(_)
Decimal(n) ==
    IF n < 10 THEN <<48 + n>> ELSE Decimal(n \div 10) \o <<48 + (n % 10)>>

\* Display of an f64: no fraction is written for a whole value.
F64Display(n) ==
    IF n.tenths = 0 THEN Decimal(n.whole)
    ELSE Decimal(n.whole) \o <<46>> \o Decimal(n.tenths)

\* ASTPrint::visit
RECURSIVE visit(_)
visit(value) ==
    CASE value.node = "LiteralString" -> <<108, 105, 116, 101, 114, 97, 108, 32>> \o value.s
      [] value.node = "LiteralNumber" -> <<108, 105, 116, 101, 114, 97, 108, 32>> \o F64Display(value.n)
      [] value.node = "LiteralTrue" -> <<108, 105, 116, 101, 114, 97, 108, 32, 116, 114, 117, 101>>
      [] value.node = "LiteralFalse" -> <<108, 105, 116, 101, 114, 97, 108, 32, 102, 97, 108, 115, 101>>
      [] value.node = "LiteralNil" -> <<108, 105, 116, 101, 114, 97, 108, 32, 110, 105, 108>>
      [] value.node = "Grouping" ->
            <<103, 114, 111, 117, 112, 105, 110, 103, 32, 40, 32>> \o visit(value.expression) \o <<32, 41>>
      [] value.node = "Unary" ->
            <<117, 110, 97, 114, 121, 32>> \o TokenDisplay(value.prefix) \o <<32>>
                \o visit(value.expression)
      [] value.node = "Binary" ->
            <<98, 105, 110, 97, 114, 121, 32>> \o visit(value.left) \o <<32>>
                \o TokenDisplay(value.operator) \o <<32>> \o visit(value.right)

\* The literals and operator tokens the trees are built from.
Leaves ==
    { LiteralString(<<97>>), LiteralNumber(F64(55, 5)), LiteralNumber(F64(77, 0)),
      LiteralTrue, LiteralFalse, LiteralNil }
PrefixTokens == {Token("Minus", <<45>>, <<>>, 1), Token("Bang", <<33>>, <<>>, 1)}
OperatorTokens == {Token("Star", <<42>>, <<>>, 1), Token("Comma", <<44>>, <<>>, 1)}

\* The expression trees of depth at most d.
RECURSIVE ExprsUpTo(_)
ExprsUpTo(d) ==
    IF d <= 1 THEN Leaves
    ELSE LET sub == ExprsUpTo(d - 1)
         IN  sub \cup {Grouping(e) : e \in sub}
                 \cup {Unary(t, e) : t \in PrefixTokens, e \in sub}
                 \cup {Binary(l, t, r) : l \in sub, t \in OperatorTokens, r \in sub}

Exprs == ExprsUpTo(MaxDepth) \cup {MainExpr}

\* Scanner::new; no expression has been printed.
Init ==
    /\ content \in Buffers
    /\ current = 0
    /\ start = 0
    /\ line = 1
    /\ out = <<>>
    /\ panicked = FALSE
    /\ expr = MainExpr
    /\ printed = <<>>

\* One call of Scanner::next.
Pull ==
    /\ ~panicked
    /\ Len(out) < MaxPulls
    /\ UNCHANGED <<expr, printed>>
    /\ IF exhausted(current, content)
       THEN /\ out' = Append(out, None)
            /\ UNCHANGED <<content, current, start, line, panicked>>
       ELSE LET content_slice == SliceFrom(content, current)
                r == from_utf8(content_slice)
            IN  CASE r.tag = "Panic" ->
                       /\ panicked' = TRUE
                       /\ UNCHANGED <<content, current, start, line, out>>
                  [] r.tag = "Ok" /\ r.size > Len(content_slice) ->
                       \* content_slice[..token_size] is out of range
                       /\ panicked' = TRUE
                       /\ UNCHANGED <<content, current, start, line, out>>
                  [] r.tag = "Ok" /\ r.size <= Len(content_slice) ->
                       LET lexeme == lexeme_of(content_slice, r.size)
                       IN  \E n \in new_lines(lexeme) :
                             LET line_ == line + line_delta(r.kind, lexeme, n)
                             IN  /\ current' = advance(current, r.size)
                                 /\ line' = line_
                                 /\ out' = Append(out, Token(r.kind, lexeme, <<>>, line_))
                                 /\ UNCHANGED <<content, start, panicked>>
                  [] r.tag = "Err" ->
                       LET e == error_arm(current, line, r.error_type)
                       IN  /\ current' = e.current
                           /\ line' = e.line
                           /\ out' = Append(out, e.item)
                           /\ UNCHANGED <<content, start, panicked>>

Next == Pull

Spec == Init /\ [][Next]_vars

\* An expression tree is built and no scanner is pulled.
InitAst ==
    /\ content = <<>>
    /\ current = 0
    /\ start = 0
    /\ line = 1
    /\ out = <<>>
    /\ panicked = FALSE
    /\ expr \in Exprs
    /\ printed = <<>>

\* expr.accept::<ASTPrint>()
Accept ==
    /\ printed = <<>>
    /\ printed' = <<visit(expr)>>
    /\ UNCHANGED <<content, current, start, line, out, panicked, expr>>

NextAst == Accept

SpecAst == InitAst /\ [][NextAst]_vars

\* ------------------------------------------------- vocabulary of the claims
Scanner == <<content, current, start, line>>

LastOf(items) == items[Len(items)]

\* The step is a pull that returned an item.
Yielded == Len(out') = Len(out) + 1

IsToken(item) == item.tag = "Token"
IsError(item) == item.tag = "Error"

NoErrorIn(items) == \A i \in 1..Len(items) : ~IsError(items[i])

\* The lexemes of the tokens among items, in yield order.
RECURSIVE Lexemes(_)
Lexemes(items) ==
    IF items = <<>> THEN <<>>
    ELSE IF IsToken(Head(items)) THEN <<Head(items).lexeme>> \o Lexemes(Tail(items))
    ELSE Lexemes(Tail(items))

\* content[0..n]
Prefix(n) == SubSeq(content, 1, n)

\* There is an unread byte, and it is b.
Unread == current < Len(content)
AtByte == content[current + 1]

\* C1: on a buffer on which no pull has yielded an error, the lexemes yielded
\* so far, concatenated in yield order, equal content[0..current], and once a
\* pull has returned None they equal the whole buffer.
C1_RoundTrip ==
    NoErrorIn(out) =>
        /\ Concat(Lexemes(out)) = Prefix(current)
        /\ (\E i \in 1..Len(out) : out[i] = None) => Concat(Lexemes(out)) = content

\* C1 witness: a buffer of several tokens scanned to None without an error.
C1_Witness ==
    /\ NoErrorIn(out)
    /\ Len(out) >= 3
    /\ LastOf(out) = None
    /\ IsToken(out[1]) /\ IsToken(out[2])
    /\ Concat(Lexemes(out)) = content

\* C2: every pull that yields a token has a lexeme of at least one byte and
\* strictly increases current, so on a buffer whose pulls yield no error the
\* pull after at most content.len() tokens returns None.
C2_Progress ==
    [][ /\ (Yielded /\ IsToken(LastOf(out'))) =>
              /\ Len(LastOf(out').lexeme) >= 1
              /\ current' > current
        /\ (Yielded /\ NoErrorIn(out') /\ Len(out') > Len(content)) =>
              LastOf(out') = None ]_vars

\* The kind the claims give a lone operator byte.
SingleKind ==
    ASCII.bang :> "Bang" @@ ASCII.equal :> "Equal" @@ ASCII.less :> "Less" @@
    ASCII.greater :> "Greater" @@ ASCII.slash :> "Slash"

\* C3: a pull at a last byte that is one of ! = < > / does not panic and
\* yields the single-character kind with a lexeme of length 1.
C3_EndOfBufferLookahead ==
    [][ (~panicked /\ current = Len(content) - 1 /\ AtByte \in DOMAIN SingleKind) =>
            /\ ~panicked'
            /\ out' = Append(out, Token(SingleKind[AtByte], <<AtByte>>, <<>>, line)) ]_vars

\* C4: a pull that yields an error leaves content, current, start and line
\* unchanged, and after an error every later pull yields that same error
\* (same kind, same line): the scanner never panics or returns None.
C4_ErrorStall ==
    [][ /\ (Yielded /\ IsError(LastOf(out'))) => UNCHANGED Scanner
        /\ (out # <<>> /\ IsError(LastOf(out))) =>
              /\ out' = Append(out, LastOf(out))
              /\ UNCHANGED Scanner
              /\ ~panicked' ]_vars

\* C4 witness: an error yielded after a token and then yielded twice more.
C4_Witness ==
    /\ Len(out) >= 4
    /\ IsToken(out[1])
    /\ IsError(out[2])
    /\ out[3] = out[2] /\ out[4] = out[2]
    /\ current < Len(content)

\* The longest prefix of bytes made of ASCII digits and at most one '.'.
NumberRun(bytes) ==
    LET ok(n) == /\ \A i \in 1..n : bytes[i] \in (48..57) \cup {46}
                 /\ CountByte(SubSeq(bytes, 1, n), 46) <= 1
        n == CHOOSE m \in 0..Len(bytes) :
                 ok(m) /\ \A k \in 0..Len(bytes) : ok(k) => k <= m
    IN  SubSeq(bytes, 1, n)

\* C5: a pull at an ASCII digit 0-9 yields a Number token whose lexeme is the
\* maximal run of digits with at most one '.', and 123.45.6 scans as Number
\* 123.45, Dot, Number 6, None.
C5_NumberLiterals ==
    [][ /\ (~panicked /\ Unread /\ AtByte \in 48..57) =>
              out' = Append(out, Token("Number",
                                       NumberRun(SliceFrom(content, current)),
                                       <<>>, line))
        /\ (content = <<49, 50, 51, 46, 52, 53, 46, 54>> /\ Len(out') = 4) =>
              out' = << Token("Number", <<49, 50, 51, 46, 52, 53>>, <<>>, 1),
                        Token("Dot", <<46>>, <<>>, 1),
                        Token("Number", <<54>>, <<>>, 1),
                        None >> ]_vars

\* ASCII letters a-z and A-Z and the underscore.
LetterBytes == (97..122) \cup (65..90) \cup {95}

\* The longest prefix of bytes made of letters and underscores.
LetterRun(bytes) == SubSeq(bytes, 1, TakeWhileCount(bytes, LetterBytes))

KindOfWord(word) ==
    IF word \in DOMAIN KEYWORDS THEN KEYWORDS[word] ELSE "Identifier"

\* C6: a pull at an ASCII letter or '_' yields a token whose lexeme is the
\* maximal run of letters and underscores, of the keyword's kind if the run
\* is a keyword and Identifier otherwise; name1 scans as Identifier name and
\* then Number 1.
C6_IdentifiersAndKeywords ==
    [][ /\ (~panicked /\ Unread /\ AtByte \in LetterBytes) =>
              LET word == LetterRun(SliceFrom(content, current))
              IN  out' = Append(out, Token(KindOfWord(word), word, <<>>, line))
        /\ (content = <<110, 97, 109, 101, 49>> /\ Len(out') = 2) =>
              out' = << Token("Identifier", <<110, 97, 109, 101>>, <<>>, 1),
                        Token("Number", <<49>>, <<>>, 1) >> ]_vars

\* The bytes that can begin a token.
TokenStartBytes ==
    {32, 13, 9, 10} \cup {40, 41, 123, 125, 44, 46, 45, 43, 59, 42}
        \cup {61, 62, 60, 33} \cup {47, 34} \cup (48..57) \cup LetterBytes

\* C7: a pull yields UnexpectedCharacter(c) exactly when the byte at current
\* is not one that can begin a token, and c is that byte.
C7_UnexpectedCharacter ==
    [][ (~panicked /\ Unread) =>
           LET unexpected == /\ Yielded
                             /\ IsError(LastOf(out'))
                             /\ LastOf(out').type_.name = "UnexpectedCharacter"
           IN  /\ unexpected <=> AtByte \notin TokenStartBytes
               /\ unexpected => LastOf(out').type_.c = AtByte ]_vars

\* C8: line is 1 plus the number of '\n' bytes in content[0..current] and
\* never decreases; a pull adds 1 for a NewLine token, the number of '\n'
\* bytes of the lexeme for a String token and 0 otherwise, and a token is
\* stamped with the line after the update.
C8_LineTracking ==
    [][ /\ line = 1 + CountByte(Prefix(current), ASCII.nl)
        /\ line' = 1 + CountByte(Prefix(current'), ASCII.nl)
        /\ line' >= line
        /\ (Yielded /\ IsToken(LastOf(out'))) =>
              /\ LastOf(out').line = line'
              /\ line' - line =
                    CASE LastOf(out').kind = "NewLine" -> 1
                      [] LastOf(out').kind = "String" ->
                            CountByte(LastOf(out').lexeme, ASCII.nl)
                      [] OTHER -> 0
        /\ (Yielded /\ ~IsToken(LastOf(out'))) => line' = line ]_vars

\* C9: a pull returns None exactly when current >= content.len() at the time
\* of the pull, and after a None every later pull returns None and leaves
\* current and line unchanged.
C9_ExhaustionTerminal ==
    [][ /\ Yielded => (LastOf(out') = None <=> current >= Len(content))
        /\ (~panicked /\ current >= Len(content)) => out' = Append(out, None)
        /\ (out # <<>> /\ LastOf(out) = None) =>
              /\ out' = Append(out, None)
              /\ UNCHANGED <<current, line>> ]_vars

\* C9 witness: tokens, then None, then None again at the end of the buffer.
C9_Witness ==
    /\ Len(out) >= 3
    /\ IsToken(out[1])
    /\ out[Len(out) - 1] = None /\ LastOf(out) = None
    /\ current = Len(content)

\* The offsets after current + 1 that hold a '"'.
LaterQuotes == {j \in (current + 2)..Len(content) : content[j] = 34}

\* C10: a pull at a '"' yields a String token whose lexeme runs from that
\* quote through the first later '"', and yields UnterminatedString with the
\* scanner's line, leaving the scanner as it is, when no later '"' exists.
C10_StringLiterals ==
    [][ (~panicked /\ Unread /\ AtByte = 34) =>
           IF LaterQuotes = {}
           THEN /\ out' = Append(out, LoxError(line, UnterminatedString))
                /\ UNCHANGED Scanner
           ELSE LET close == CHOOSE j \in LaterQuotes : \A k \in LaterQuotes : j <= k
                IN  /\ Yielded
                    /\ IsToken(LastOf(out'))
                    /\ LastOf(out').kind = "String"
                    /\ LastOf(out').lexeme = SubSeq(content, current + 1, close)
                    /\ Len(LastOf(out').lexeme) = (close - (current + 2)) + 2
                    /\ current' = close ]_vars

\* C10 witness: a String token with a byte between its quotes was yielded
\* first, and a later lone '"' has yielded UnterminatedString.
C10_Witness ==
    /\ Len(out) >= 3
    /\ IsToken(out[1])
    /\ out[1].kind = "String"
    /\ Len(out[1].lexeme) = 3
    /\ LastOf(out) = LoxError(line, UnterminatedString)
    /\ Unread /\ AtByte = 34

\* The first offset after the "//" at current that holds a '\n', or the
\* length of the buffer when there is none (0-based).
CommentEnd ==
    LET nls == {j \in (current + 2)..(Len(content) - 1) : content[j + 1] = 10}
    IN  IF nls = {} THEN Len(content)
        ELSE CHOOSE j \in nls : \A k \in nls : j <= k

\* C11: a pull at "//" yields one Comment token that ends before the next
\* '\n' or at the end of the buffer; after a Comment token any unread byte is
\* a '\n' and the next pull yields NewLine of length 1; a '/' followed by
\* any other byte yields Slash of length 1; "// comment\n" scans as Comment
\* "// comment", NewLine, None.
C11_Comments ==
    [][ /\ (~panicked /\ current + 1 < Len(content) /\ AtByte = 47) =>
              IF content[current + 2] = 47
              THEN /\ out' = Append(out, Token("Comment",
                                               SubSeq(content, current + 1, CommentEnd),
                                               <<>>, line))
                   /\ current' = CommentEnd
              ELSE /\ out' = Append(out, Token("Slash", <<47>>, <<>>, line))
                   /\ current' = current + 1
        /\ (/\ ~panicked /\ Unread /\ out # <<>>
            /\ IsToken(LastOf(out)) /\ LastOf(out).kind = "Comment") =>
              /\ AtByte = 10
              /\ out' = Append(out, Token("NewLine", <<10>>, <<>>, line + 1))
        /\ (/\ content = <<47, 47, 32, 99, 111, 109, 109, 101, 110, 116, 10>>
            /\ Len(out') = 3) =>
              out' = << Token("Comment",
                              <<47, 47, 32, 99, 111, 109, 109, 101, 110, 116>>,
                              <<>>, 1),
                        Token("NewLine", <<10>>, <<>>, 2),
                        None >> ]_vars

\* C11 witness: "// comment\n" scanned to its end.
C11_Witness ==
    /\ content = <<47, 47, 32, 99, 111, 109, 109, 101, 110, 116, 10>>
    /\ Len(out) = 3
    /\ out[1].kind = "Comment"
    /\ LastOf(out) = None

\* The unread input starts with the bytes word, and the byte after them, if
\* any, is not a letter or an underscore.
AtWord(word) ==
    /\ current + Len(word) <= Len(content)
    /\ SubSeq(content, current + 1, current + Len(word)) = word
    /\ current + Len(word) < Len(content) =>
           content[current + Len(word) + 1] \notin LetterBytes

\* C12: no yielded token has kind False, and a pull at the text "false" (not
\* followed by a letter or underscore) yields one Identifier token with the
\* lexeme "false".
C12_FalseNeverProduced ==
    [][ /\ \A i \in 1..Len(out') : IsToken(out'[i]) => out'[i].kind # "False"
        /\ (~panicked /\ AtWord(<<102, 97, 108, 115, 101>>)) =>
              /\ out' = Append(out, Token("Identifier", <<102, 97, 108, 115, 101>>,
                                          <<>>, line))
              /\ current' = current + 5 ]_vars

\* C12 witness: "false;" has yielded its first two tokens.
C12_Witness ==
    /\ content = <<102, 97, 108, 115, 101, 59>>
    /\ Len(out) = 2
    /\ out[1].kind = "Identifier" /\ out[1].lexeme = <<102, 97, 108, 115, 101>>
    /\ out[2].kind = "Semicolon"

CompoundKind ==
    ASCII.bang :> "BangEqual" @@ ASCII.equal :> "EqualEqual" @@
    ASCII.less :> "LessEqual" @@ ASCII.greater :> "GreaterEqual"

\* C15: a pull at = > < or ! that has a following byte yields the compound
\* kind with length 2 if that byte is '=', and the single-character kind
\* with length 1 otherwise, leaving the following byte unread.
C15_TwoCharacterOperators ==
    [][ (~panicked /\ current + 1 < Len(content) /\ AtByte \in DOMAIN CompoundKind) =>
           IF content[current + 2] = 61
           THEN /\ out' = Append(out, Token(CompoundKind[AtByte], <<AtByte, 61>>,
                                            <<>>, line))
                /\ current' = current + 2
           ELSE /\ out' = Append(out, Token(SingleKind[AtByte], <<AtByte>>,
                                            <<>>, line))
                /\ current' = current + 1 ]_vars

\* C15 witness: "!!=" has yielded Bang and then BangEqual.
C15_Witness ==
    /\ Len(out) >= 2
    /\ out[1] = Token("Bang", <<33>>, <<>>, 1)
    /\ out[2] = Token("BangEqual", <<33, 61>>, <<>>, 1)

IsWhiteSpace(item) == IsToken(item) /\ item.kind = "WhiteSpace"

\* C16: a pull at a space, '\r' or '\t' yields a WhiteSpace token whose
\* lexeme is the whole run of those bytes; no two items yielded one after
\* the other are both WhiteSpace; no WhiteSpace lexeme holds a '\n', and a
\* pull at a '\n' yields a NewLine token of length 1.
C16_WhitespaceMaximal ==
    [][ /\ (~panicked /\ Unread /\ AtByte \in {32, 13, 9}) =>
              LET run == TakeWhileCount(SliceFrom(content, current), {32, 13, 9})
              IN  /\ out' = Append(out, Token("WhiteSpace",
                                              SubSeq(content, current + 1, current + run),
                                              <<>>, line))
                  /\ current' = current + run
        /\ \A i \in 1..(Len(out') - 1) :
              ~(IsWhiteSpace(out'[i]) /\ IsWhiteSpace(out'[i + 1]))
        /\ \A i \in 1..Len(out') :
              IsWhiteSpace(out'[i]) => CountByte(out'[i].lexeme, 10) = 0
        /\ (~panicked /\ Unread /\ AtByte = 10) =>
              /\ out' = Append(out, Token("NewLine", <<10>>, <<>>, line + 1))
              /\ current' = current + 1 ]_vars

\* C16 witness: " \t\r \n\t x" has yielded a run of four, a NewLine and a
\* run of two.
C16_Witness ==
    /\ Len(out) >= 3
    /\ IsWhiteSpace(out[1]) /\ Len(out[1].lexeme) = 4
    /\ out[2].kind = "NewLine"
    /\ IsWhiteSpace(out[3]) /\ Len(out[3].lexeme) = 2

\* C17: current stays within 0..content.len(), and the length classification
\* returns for the unread bytes is at most their number.
C17_CursorBounds ==
    /\ 0 <= current /\ current <= Len(content)
    /\ Unread =>
          LET r == from_utf8(SliceFrom(content, current))
          IN  r.tag = "Ok" => r.size <= Len(content) - current

\* C17 witness: a token of several bytes has ended exactly at the end of the
\* buffer.
C17_Witness ==
    /\ out # <<>>
    /\ IsToken(LastOf(out))
    /\ Len(LastOf(out).lexeme) >= 2
    /\ current = Len(content)

\* The rendering C14 describes: the operator is written as its lexeme.
RECURSIVE Rendering(_)
Rendering(value) ==
    CASE value.node = "LiteralString" -> <<108, 105, 116, 101, 114, 97, 108, 32>> \o value.s
      [] value.node = "LiteralNumber" -> <<108, 105, 116, 101, 114, 97, 108, 32>> \o F64Display(value.n)
      [] value.node = "LiteralTrue" -> <<108, 105, 116, 101, 114, 97, 108, 32, 116, 114, 117, 101>>
      [] value.node = "LiteralFalse" -> <<108, 105, 116, 101, 114, 97, 108, 32, 102, 97, 108, 115, 101>>
      [] value.node = "LiteralNil" -> <<108, 105, 116, 101, 114, 97, 108, 32, 110, 105, 108>>
      [] value.node = "Grouping" ->
            <<103, 114, 111, 117, 112, 105, 110, 103, 32, 40, 32>> \o Rendering(value.expression) \o <<32, 41>>
      [] value.node = "Unary" ->
            <<117, 110, 97, 114, 121, 32>> \o value.prefix.lexeme \o <<32>> \o Rendering(value.expression)
      [] value.node = "Binary" ->
            <<98, 105, 110, 97, 114, 121, 32>> \o Rendering(value.left) \o <<32>> \o value.operator.lexeme
                \o <<32>> \o Rendering(value.right)

\* C14: for every finite Expr, ASTPrint::visit returns "literal <value>",
\* "grouping ( <inner> )", "unary <lexeme> <inner>" or
\* "binary <left> <lexeme> <right>", with the children rendered the same way.
C14_PrintVisitor ==
    printed # <<>> => printed[1] = Rendering(expr)

====
